---- MODULE Spec2Model ----
(***************************************************************************)
(* Component store (dashboard_data, widget_data) and layout placement of   *)
(* agent/tools/dashboard_storage_tools.py and agent/tools/                 *)
(* sql_storage_tools.py.  Each SQL statement is one atomic step; the       *)
(* handlers of concurrent callers interleave between statements.           *)
(* The table catalog of agent/tools/storage_tools.py (DuckDBManager), with *)
(* its calls running one after another.                                    *)
(***************************************************************************)
EXTENDS Integers, Sequences, FiniteSets, TLC

VARIABLES
    dashboard_data,   \* the dashboard_data table: rows in insertion order
    widget_data,      \* the widget_data table: rows in insertion order
    table_exists,     \* whether dashboard_data has been created
    pc,               \* per caller: the statement it is about to run
    call,             \* per caller: the arguments of the call in progress
    cfg,              \* per caller: its in-memory dashboard_config
    wcfg,             \* per caller: widget_config read from widget_data
    ver,              \* per caller: current_version of save_dashboard_data
    readVer,          \* history: version of the row get_dashboard_data returned
    res,              \* per caller: outcome of its last completed call
    budget,           \* number of calls that may still be started
    maxEver,          \* history: highest version ever written per key
    scen,             \* history: progress of the init/add/replace scenario
    placed,           \* layout: widgets placed one after another
    dash,             \* layout: a dashboard's widget list
    optimized,        \* layout: dash is the output of optimize_dashboard_layout
    tables,           \* catalog: the physical tables, by name
    table_metadata,   \* catalog: the rows of table_metadata
    last,             \* catalog history: the last completed call
    prev,             \* catalog history: the call completed before it
    createdUnder,     \* catalog history: per name, the users who created a
                      \* table of that name
    saving,           \* catalog: the save_dataframe call in progress
    seen              \* catalog history: what a reader saw of the name
                      \* being saved, since the save began

vars == <<dashboard_data, widget_data, table_exists, pc, call, cfg, wcfg, ver,
          readVer, res, budget, maxEver, scen, placed, dash, optimized,
          tables, table_metadata, last, prev, createdUnder, saving, seen>>

storeVars == <<dashboard_data, widget_data, table_exists, pc, call, cfg, wcfg,
               ver, readVer, res, budget, maxEver, scen>>

layoutVars == <<placed, dash, optimized>>

catalogVars == <<tables, table_metadata, last, prev, createdUnder, saving,
                 seen>>

----------------------------------------------------------------------------
(* Bounds and input domains *)

MaxCalls == 4
MaxSeqCalls == 5
MaxEditCalls == 2

Procs == {"p1", "p2"}
Runs == {"r1", "r2"}
Dashboards == {"d1", "d2"}
WidgetIds == {"w1", "w2"}
None == "None"
Invalid == "not-a-uuid"

Max(S) == CHOOSE x \in S : \A y \in S : y <= x

----------------------------------------------------------------------------
(* Payload documents *)

\* widget_data.get("data", {}).get("widget", {}) of a payload without a widget
EmptyWidget == [id |-> None, position |-> None]

\* WidgetResponse.model_dump(): the widget definition, or an error payload
WidgetPayloads(w) ==
    {[kind |-> "widget", widget |-> [id |-> w, position |-> pos]] :
        pos \in {"at0"}}
    \cup {[kind |-> "error", widget |-> EmptyWidget]}

NoCfg == [id |-> None, name |-> None, description |-> None,
          widgets |-> <<>>, columns |-> 0, updatedAt |-> None]

NoCall == [op |-> "none", run |-> None, did |-> None, wid |-> None,
           old |-> None, name |-> None, description |-> None]

NoRes == [status |-> "none", call |-> NoCall, widget |-> EmptyWidget,
          readVer |-> 0, ver |-> 0]

----------------------------------------------------------------------------
(* dashboard_data: queries *)

\* WHERE run_id = r AND dashboard_id = d
SelectDashboard(r, d) ==
    {i \in DOMAIN dashboard_data :
        dashboard_data[i].run_id = r /\ dashboard_data[i].dashboard_id = d}

\* WHERE dashboard_id = d
SelectByDashboardId(d) ==
    {i \in DOMAIN dashboard_data : dashboard_data[i].dashboard_id = d}

\* variant: the next version taken from COUNT(*) instead of MAX(version)
CountPlusOne(d) ==
    IF ~table_exists THEN 1 ELSE Cardinality(SelectByDashboardId(d)) + 1

\* variant: MAX(version) taken over the rows of the run of the one caller
\* "p1" only
NextVersionWithinRun(d) ==
    IF ~table_exists \/ SelectDashboard(call["p1"].run, d) = {}
    THEN 1
    ELSE Max({dashboard_data[i].version :
                i \in SelectDashboard(call["p1"].run, d)}) + 1

\* SELECT MAX(version) ... WHERE dashboard_id = d, plus one; 1 when the
\* table is missing or holds no row of d
_get_next_version(d) ==
    IF ~table_exists \/ SelectByDashboardId(d) = {}
    THEN 1
    ELSE Max({dashboard_data[i].version : i \in SelectByDashboardId(d)}) + 1

\* SELECT data ... ORDER BY version DESC LIMIT 1; found = FALSE is the
\* RuntimeError of an empty result or of a missing table
get_dashboard_data(r, d) ==
    LET m == SelectDashboard(r, d) IN
    IF ~table_exists \/ m = {}
    THEN [found |-> FALSE, data |-> NoCfg, version |-> 0]
    ELSE LET i == CHOOSE i \in m :
                    \A j \in m : dashboard_data[j].version <= dashboard_data[i].version
         IN [found |-> TRUE, data |-> dashboard_data[i].data,
             version |-> dashboard_data[i].version]

RECURSIVE SortDesc(_)
\* indices of rows ordered by version, highest first
SortDesc(S) ==
    IF S = {} THEN <<>>
    ELSE LET i == CHOOSE i \in S :
                    \A j \in S : dashboard_data[j].version <= dashboard_data[i].version
         IN <<i>> \o SortDesc(S \ {i})

\* SELECT run_id, version, status ... WHERE dashboard_id = d ORDER BY version DESC;
\* the empty list when the query fails
get_dashboard_versions(d) ==
    IF ~table_exists THEN <<>>
    ELSE LET ord == SortDesc(SelectByDashboardId(d)) IN
         [k \in 1..Len(ord) |->
            [run_id |-> dashboard_data[ord[k]].run_id,
             version |-> dashboard_data[ord[k]].version,
             status |-> dashboard_data[ord[k]].status]]

\* variant: the table created without its primary key
NoPrimaryKey(row) == FALSE

\* PRIMARY KEY (run_id, dashboard_id, version) rejects the row
PrimaryKeyConflict(row) ==
    \E i \in DOMAIN dashboard_data :
        /\ dashboard_data[i].run_id = row.run_id
        /\ dashboard_data[i].dashboard_id = row.dashboard_id
        /\ dashboard_data[i].version = row.version

\* variant: the current row of the key overwritten in place
UpsertRow(row) ==
    LET m == {i \in DOMAIN dashboard_data :
                /\ dashboard_data[i].run_id = row.run_id
                /\ dashboard_data[i].dashboard_id = row.dashboard_id}
    IN IF m = {} THEN Append(dashboard_data, row)
       ELSE [dashboard_data EXCEPT ![Max(m)] = row]

\* INSERT INTO dashboard_data ... VALUES (...)
InsertRow(row) == Append(dashboard_data, row)

\* variant: DELETE without the WHERE clause
DeleteEveryRun(tbl, r) == <<>>

\* DELETE FROM dashboard_data WHERE run_id = r
DeleteRun(tbl, r) == SelectSeq(tbl, LAMBDA row : row.run_id # r)

----------------------------------------------------------------------------
(* widget_data: queries *)

\* variant: WHERE widget_id = w, whatever the run
SelectWidgetOfAnyRun(r, w) ==
    {i \in DOMAIN widget_data : widget_data[i].widget_id = w}

\* WHERE run_id = r AND widget_id = w
SelectWidget(r, w) ==
    {i \in DOMAIN widget_data :
        widget_data[i].run_id = r /\ widget_data[i].widget_id = w}

----------------------------------------------------------------------------
(* In-memory edits of dashboard_config *)

\* variant: the widget put in front
PrependWidget(c, w) == [c EXCEPT !.widgets = <<w>> \o @]

\* dashboard_config["widgets"].append(widget_config)
AppendWidget(c, w) == [c EXCEPT !.widgets = Append(@, w)]

\* variant: the first entry taken for the one searched
FindWidgetTakesFirst(c, old) == IF c.widgets # <<>> THEN 1 ELSE 0

\* index of the first entry whose id is old, 0 when there is none
FindWidget(c, old) ==
    IF \E i \in DOMAIN c.widgets : c.widgets[i].id = old
    THEN CHOOSE i \in DOMAIN c.widgets :
            /\ c.widgets[i].id = old
            /\ \A j \in DOMAIN c.widgets : c.widgets[j].id = old => i <= j
    ELSE 0

\* variant: the new widget put in the last slot
ReplaceWidgetAtEnd(c, old, w) ==
    IF FindWidget(c, old) = 0 THEN c
    ELSE [c EXCEPT !.widgets[Len(c.widgets)] = w]

\* variant: the new widget appended, the old one kept
ReplaceWidgetAppends(c, old, w) == [c EXCEPT !.widgets = Append(@, w)]

\* dashboard_config["widgets"][i] = widget_config
ReplaceWidget(c, old, w) ==
    IF FindWidget(c, old) = 0 THEN c
    ELSE [c EXCEPT !.widgets[FindWidget(c, old)] = w]

\* variant: name and description assigned whether provided or not
UpdateMetadataOverwrites(c, n, e) == [c EXCEPT !.name = n, !.description = e]

\* if name is not None: ...; if description is not None: ...
UpdateMetadata(c, n, e) ==
    [c EXCEPT !.name = IF n # None THEN n ELSE @,
              !.description = IF e # None THEN e ELSE @]

\* datetime.now().isoformat(): the time of the initialize_dashboard call
\* that built the document (its createdAt), or the time of a later call
AtCreation == "createdAt"
Later == "later"

\* dashboard_config["updatedAt"] = datetime.now().isoformat()
Touch(c) == [c EXCEPT !.updatedAt = Later]

----------------------------------------------------------------------------
(* Layout placement *)

MaxPlaced == 6
MaxDash == 3

KnownTypes == {"metric", "chart", "table", "text"}

\* a widget without "position" / "size", or with an empty one
NoPos == [x |-> -1, y |-> -1]
NoSize == [width |-> -1, height |-> -1]

\* position_rules[new_widget_type]
position_rules(t) ==
    CASE t = "metric" -> [preferred_y |-> 0, preferred_x_positions |-> <<0, 300, 600>>,
                          width |-> 280, height |-> 160]
      [] t = "chart" -> [preferred_y |-> 180, preferred_x_positions |-> <<0, 300>>,
                         width |-> 500, height |-> 300]
      [] t = "table" -> [preferred_y |-> 500, preferred_x_positions |-> <<0>>,
                         width |-> 580, height |-> 300]
      [] t = "text" -> [preferred_y |-> 400, preferred_x_positions |-> <<0, 300>>,
                        width |-> 400, height |-> 200]

\* dimensions.get(widget_type, {"width": 400, "height": 250})
get_widget_dimensions(t) ==
    IF t \in KnownTypes
    THEN [width |-> position_rules(t).width, height |-> position_rules(t).height]
    ELSE [width |-> 400, height |-> 250]

\* occupied_positions: the widgets that carry a position and a size
OccupiedPositions(ws) ==
    LET has == SelectSeq(ws, LAMBDA w : w.position # NoPos /\ w.size # NoSize) IN
    [k \in 1..Len(has) |->
        [x |-> has[k].position.x, y |-> has[k].position.y,
         width |-> has[k].size.width, height |-> has[k].size.height]]

\* _position_overlaps, margin = 20
_position_overlaps(x, y, width, height, occ) ==
    \E k \in DOMAIN occ :
        /\ x < occ[k].x + occ[k].width + 20
        /\ x + width + 20 > occ[k].x
        /\ y < occ[k].y + occ[k].height + 20
        /\ y + height + 20 > occ[k].y

\* variant: the row taken below every existing widget, whatever its y
FindRowBelowAll(preferred_y, occ) ==
    IF occ = <<>> THEN preferred_y
    ELSE Max({occ[k].y + occ[k].height : k \in DOMAIN occ}
             \cup {preferred_y}) + 30

\* _find_next_available_row: below the widgets within 50 of preferred_y
_find_next_available_row(preferred_y, occ) ==
    IF occ = <<>> THEN preferred_y
    ELSE LET row == {occ[k].y + occ[k].height : k \in
                        {k \in DOMAIN occ : /\ occ[k].y >= preferred_y - 50
                                            /\ occ[k].y <= preferred_y + 50}}
         IN Max(row \cup {preferred_y}) + 30

\* variant: the last free preferred x taken instead of the first
CalculateLastFree(ws, t) ==
    IF t \notin KnownTypes THEN [x |-> 0, y |-> 600]
    ELSE LET rules == position_rules(t)
             xs == rules.preferred_x_positions
             occ == OccupiedPositions(ws)
             free == {k \in DOMAIN xs :
                        ~_position_overlaps(xs[k], rules.preferred_y,
                                            rules.width, rules.height, occ)}
         IN IF free # {}
            THEN [x |-> xs[Max(free)], y |-> rules.preferred_y]
            ELSE [x |-> xs[1],
                  y |-> _find_next_available_row(rules.preferred_y, occ)]

\* calculate_widget_position(dashboard_widgets, new_widget_type)
calculate_widget_position(ws, t) ==
    IF t \notin KnownTypes THEN [x |-> 0, y |-> 600]
    ELSE LET rules == position_rules(t)
             xs == rules.preferred_x_positions
             occ == OccupiedPositions(ws)
             free == {k \in DOMAIN xs :
                        ~_position_overlaps(xs[k], rules.preferred_y,
                                            rules.width, rules.height, occ)}
         IN IF free # {}
            THEN [x |-> xs[CHOOSE k \in free : \A j \in free : k <= j],
                  y |-> rules.preferred_y]
            ELSE [x |-> xs[1],
                  y |-> _find_next_available_row(rules.preferred_y, occ)]

\* widget.get("type", "text")
TypeOf(w) == IF w.type = None THEN "text" ELSE w.type

\* type_priority.get(w.get("type", "text"), 3)
type_priority(w) ==
    CASE TypeOf(w) = "metric" -> 0
      [] TypeOf(w) = "chart" -> 1
      [] TypeOf(w) = "table" -> 2
      [] OTHER -> 3

RECURSIVE Reverse(_)
Reverse(ws) == IF ws = <<>> THEN <<>> ELSE Append(Reverse(Tail(ws)), Head(ws))

\* variant: a sort that does not keep the order of equal keys
SortUnstable(ws) ==
    SelectSeq(Reverse(ws), LAMBDA w : type_priority(w) = 0)
    \o SelectSeq(Reverse(ws), LAMBDA w : type_priority(w) = 1)
    \o SelectSeq(Reverse(ws), LAMBDA w : type_priority(w) = 2)
    \o SelectSeq(Reverse(ws), LAMBDA w : type_priority(w) = 3)

\* widgets.sort(key=type_priority): list.sort is stable
SortByPriority(ws) ==
    SelectSeq(ws, LAMBDA w : type_priority(w) = 0)
    \o SelectSeq(ws, LAMBDA w : type_priority(w) = 1)
    \o SelectSeq(ws, LAMBDA w : type_priority(w) = 2)
    \o SelectSeq(ws, LAMBDA w : type_priority(w) = 3)

RECURSIVE PlaceAgainstInput(_, _)
\* variant: each widget placed against the widgets placed before it and the
\* widgets still to place, where they were before the call
PlaceAgainstInput(todo, done) ==
    IF todo = <<>> THEN done
    ELSE LET w == Head(todo) IN
         PlaceAgainstInput(Tail(todo),
                  Append(done,
                         [w EXCEPT !.position =
                                calculate_widget_position(done \o Tail(todo),
                                                          TypeOf(w)),
                                   !.size = get_widget_dimensions(TypeOf(w))]))

RECURSIVE PlaceAllSetsType(_, _)
\* variant: the default type written into a widget that has none
PlaceAllSetsType(todo, done) ==
    IF todo = <<>> THEN done
    ELSE LET w == Head(todo) IN
         PlaceAllSetsType(Tail(todo),
                  Append(done,
                         [w EXCEPT !.type = TypeOf(w),
                                   !.position =
                                calculate_widget_position(done, TypeOf(w)),
                                   !.size = get_widget_dimensions(TypeOf(w))]))

RECURSIVE PlaceAll(_, _)
\* the loop of optimize_dashboard_layout: each widget placed against the
\* widgets placed before it
PlaceAll(todo, done) ==
    IF todo = <<>> THEN done
    ELSE LET w == Head(todo) IN
         PlaceAll(Tail(todo),
                  Append(done,
                         [w EXCEPT !.position =
                                calculate_widget_position(done, TypeOf(w)),
                                   !.size = get_widget_dimensions(TypeOf(w))]))

\* optimize_dashboard_layout, on the widget list of dashboard_config
optimize_dashboard_layout(ws) ==
    IF ws = <<>> THEN ws ELSE PlaceAll(SortByPriority(ws), <<>>)

----------------------------------------------------------------------------
(* Table catalog: DuckDBManager *)

Users == {"u1", "u2"}
SaveNames == {"a"}
CsvNames == {"c1"}
TableNames == SaveNames \cup CsvNames

\* a pandas DataFrame (or the contents of a CSV file): its contents, len(df)
\* and len(df.columns); "z" has no columns
DataFrames ==
    {[data |-> "x", nrows |-> 1, ncols |-> 2],
     [data |-> "y", nrows |-> 2, ncols |-> 1],
     [data |-> "z", nrows |-> 0, ncols |-> 0]}

\* no physical table of that name; a csv_file path that does not exist
NoTable == [data |-> None, nrows |-> -1, ncols |-> -1]
NoFile == [data |-> "no-file", nrows |-> -1, ncols |-> -1]

NoOp == [op |-> None, name |-> None, df |-> NoTable, user |-> None, ok |-> FALSE]

\* no save_dataframe in progress; nothing read
NoSave == [pc |-> "idle", name |-> None, df |-> NoTable, user |-> None,
           before |-> FALSE, ok |-> FALSE]
NoSeen == [name |-> None, found |-> FALSE, listed |-> FALSE, at |-> None]

\* register + CREATE TABLE ... AS SELECT * succeed: the engine rejects a
\* DataFrame without columns
Creatable(df) == df.ncols > 0

\* the rows of table_metadata with table_name = n
Entries(n) == {m \in table_metadata : m.table_name = n}

\* the row the handlers insert into table_metadata
MetadataRow(n, kind, df, user) ==
    [table_name |-> n, table_type |-> kind, row_count |-> df.nrows,
     column_count |-> df.ncols, user_id |-> user]

\* INSERT INTO table_metadata: table_name is the primary key
MetadataInsertFails(row) == Entries(row.table_name) # {}

\* variant: the row added next to the one the name already has
InsertBesideOld(row) == table_metadata \cup {row}

\* variant: INSERT OR IGNORE
InsertOrIgnore(row) ==
    IF Entries(row.table_name) # {} THEN table_metadata
    ELSE table_metadata \cup {row}

\* INSERT OR REPLACE INTO table_metadata
InsertOrReplace(row) ==
    (table_metadata \ Entries(row.table_name)) \cup {row}

\* get_table_names: information_schema.tables joined with table_metadata on
\* the name, filtered by user_id
get_table_names(user) ==
    {n \in TableNames :
        /\ tables[n] # NoTable
        /\ \E m \in Entries(n) : m.user_id = user}

\* get_table_info: the counts of the metadata row, or those of the physical
\* table when the name has no row; fails when the physical table is missing
get_table_info(n) ==
    IF tables[n] = NoTable
    THEN [found |-> FALSE, table_type |-> None, row_count |-> -1,
          column_count |-> -1]
    ELSE IF Entries(n) # {}
         THEN LET m == CHOOSE m \in Entries(n) : TRUE IN
              [found |-> TRUE, table_type |-> m.table_type,
               row_count |-> m.row_count, column_count |-> m.column_count]
         ELSE [found |-> TRUE, table_type |-> "unknown",
               row_count |-> tables[n].nrows, column_count |-> tables[n].ncols]

----------------------------------------------------------------------------
(* Initial state: empty store, every caller idle *)

Empty ==
    /\ dashboard_data = <<>>
    /\ widget_data = <<>>
    /\ table_exists = FALSE
    /\ pc = [p \in Procs |-> "idle"]
    /\ call = [p \in Procs |-> NoCall]
    /\ cfg = [p \in Procs |-> NoCfg]
    /\ wcfg = [p \in Procs |-> EmptyWidget]
    /\ ver = [p \in Procs |-> 0]
    /\ readVer = [p \in Procs |-> 0]
    /\ res = [p \in Procs |-> NoRes]
    /\ maxEver = [k \in Runs \X Dashboards |-> 0]
    /\ scen = 0
    /\ placed = <<>>
    /\ dash = <<>>
    /\ optimized = FALSE
    /\ tables = [n \in TableNames |-> NoTable]
    /\ table_metadata = {}
    /\ last = NoOp
    /\ prev = NoOp
    /\ createdUnder = [n \in TableNames |-> {}]
    /\ saving = NoSave
    /\ seen = NoSeen

Init == Empty /\ budget = MaxCalls

----------------------------------------------------------------------------
(* Callers *)

\* a caller starts a call: its previous outcome is dropped
Start(p, c, next) ==
    /\ pc[p] = "idle"
    /\ budget > 0
    /\ budget' = budget - 1
    /\ call' = [call EXCEPT ![p] = c]
    /\ res' = [res EXCEPT ![p] = NoRes]
    /\ pc' = [pc EXCEPT ![p] = next]

\* the call of p returns or raises
Finish(p, status) ==
    /\ pc' = [pc EXCEPT ![p] = "idle"]
    /\ res' = [res EXCEPT ![p] =
                 [status |-> status, call |-> call[p], widget |-> wcfg[p],
                  readVer |-> readVer[p], ver |-> ver[p]]]
    /\ call' = [call EXCEPT ![p] = NoCall]
    /\ cfg' = [cfg EXCEPT ![p] = NoCfg]
    /\ wcfg' = [wcfg EXCEPT ![p] = EmptyWidget]
    /\ ver' = [ver EXCEPT ![p] = 0]
    /\ readVer' = [readVer EXCEPT ![p] = 0]

\* variant: the failure of a handler recorded as a row of status "error",
\* the way generate_widget_data records its failures
RaiseAfterSave(p, status) ==
    /\ Finish(p, status)
    /\ dashboard_data' =
          Append(dashboard_data,
                 [run_id |-> call[p].run, dashboard_id |-> call[p].did,
                  version |-> _get_next_version(call[p].did),
                  status |-> "error", data |-> cfg[p]])
    /\ UNCHANGED <<widget_data, table_exists>>

\* except Exception as e: raise RuntimeError(...) of a handler whose read
\* failed: nothing was written
Raise(p, status) ==
    /\ Finish(p, status)
    /\ UNCHANGED <<dashboard_data, widget_data, table_exists>>

\* str(uuid.uuid4()): an id no row and no call in progress holds
FreshId(d) ==
    /\ d \in Dashboards
    /\ SelectByDashboardId(d) = {}
    /\ \A q \in Procs : call[q].did # d

\* initialize_dashboard up to the call of save_dashboard_data
initialize_dashboard(p, r, n, e, given) ==
    \E d \in Dashboards :
        /\ IF given \in Dashboards THEN d = given ELSE FreshId(d)
        /\ Start(p, [NoCall EXCEPT !.op = "init", !.run = r, !.did = d,
                                   !.old = given, !.name = n, !.description = e],
                 "ensure")
        /\ cfg' = [cfg EXCEPT ![p] =
                     [id |-> d, name |-> n, description |-> e,
                      widgets |-> <<>>, columns |-> 12,
                      updatedAt |-> AtCreation]]
        /\ UNCHANGED <<dashboard_data, widget_data, table_exists, wcfg, ver,
                       readVer, maxEver, scen>>
        /\ UNCHANGED layoutVars
    /\ UNCHANGED catalogVars

\* add_widget_to_dashboard is called
add_widget_to_dashboard(p, r, d, w) ==
    /\ Start(p, [NoCall EXCEPT !.op = "add", !.run = r, !.did = d, !.wid = w],
             "get_dashboard")
    /\ UNCHANGED <<dashboard_data, widget_data, table_exists, cfg, wcfg, ver,
                   readVer, maxEver, scen>>
    /\ UNCHANGED layoutVars
    /\ UNCHANGED catalogVars

\* replace_widget_in_dashboard is called
replace_widget_in_dashboard(p, r, d, old, new) ==
    /\ Start(p, [NoCall EXCEPT !.op = "replace", !.run = r, !.did = d,
                               !.old = old, !.wid = new],
             "get_dashboard")
    /\ UNCHANGED <<dashboard_data, widget_data, table_exists, cfg, wcfg, ver,
                   readVer, maxEver, scen>>
    /\ UNCHANGED layoutVars
    /\ UNCHANGED catalogVars

\* update_dashboard_metadata is called
update_dashboard_metadata(p, r, d, n, e) ==
    /\ Start(p, [NoCall EXCEPT !.op = "update", !.run = r, !.did = d,
                               !.name = n, !.description = e],
             "get_dashboard")
    /\ UNCHANGED <<dashboard_data, widget_data, table_exists, cfg, wcfg, ver,
                   readVer, maxEver, scen>>
    /\ UNCHANGED layoutVars
    /\ UNCHANGED catalogVars

\* dashboard_config = get_dashboard_data(run_id, dashboard_id), first statement
\* of add_widget, replace_widget and update_dashboard_metadata
GetDashboardStep(p) ==
    /\ pc[p] = "get_dashboard"
    /\ LET got == get_dashboard_data(call[p].run, call[p].did) IN
       IF ~got.found
       THEN Raise(p, "dashboard_not_found")
       ELSE /\ IF call[p].op = "update"
               THEN /\ cfg' = [cfg EXCEPT ![p] =
                        Touch(UpdateMetadata(got.data, call[p].name,
                                             call[p].description))]
                    /\ pc' = [pc EXCEPT ![p] = "ensure"]
               ELSE /\ cfg' = [cfg EXCEPT ![p] = got.data]
                    /\ pc' = [pc EXCEPT ![p] = "get_widget"]
            /\ readVer' = [readVer EXCEPT ![p] = got.version]
            /\ UNCHANGED <<call, res, wcfg, ver>>
            /\ UNCHANGED <<dashboard_data, widget_data, table_exists>>
    /\ UNCHANGED <<budget, maxEver, scen>>
    /\ UNCHANGED layoutVars
    /\ UNCHANGED catalogVars

\* widget_data = get_widget_data(run_id, widget_id): df.iloc[0] of a SELECT
\* without ORDER BY is any matching row; then the edit of dashboard_config
GetWidgetStep(p) ==
    /\ pc[p] = "get_widget"
    /\ IF SelectWidget(call[p].run, call[p].wid) = {}
       THEN Raise(p, "widget_not_found")
       ELSE \E i \in SelectWidget(call[p].run, call[p].wid) :
              LET w == widget_data[i].data.widget IN
              IF call[p].op = "replace" /\ FindWidget(cfg[p], call[p].old) = 0
              THEN Raise(p, "widget_not_in_dashboard")
              ELSE /\ cfg' = [cfg EXCEPT ![p] =
                        IF call[p].op = "add" THEN Touch(AppendWidget(@, w))
                        ELSE Touch(ReplaceWidget(@, call[p].old, w))]
                   /\ wcfg' = [wcfg EXCEPT ![p] = w]
                   /\ pc' = [pc EXCEPT ![p] = "ensure"]
                   /\ UNCHANGED <<call, res, ver, readVer>>
                   /\ UNCHANGED <<dashboard_data, widget_data, table_exists>>
    /\ UNCHANGED <<budget, maxEver, scen>>
    /\ UNCHANGED layoutVars
    /\ UNCHANGED catalogVars

\* _ensure_dashboard_table_exists(): CREATE TABLE IF NOT EXISTS dashboard_data
\* with PRIMARY KEY (run_id, dashboard_id, version)
EnsureStep(p) ==
    /\ pc[p] = "ensure"
    /\ table_exists' = TRUE
    /\ pc' = [pc EXCEPT ![p] = "next_version"]
    /\ UNCHANGED <<dashboard_data, widget_data, call, cfg, wcfg, ver, readVer,
                   res, budget, maxEver, scen>>
    /\ UNCHANGED layoutVars
    /\ UNCHANGED catalogVars

\* current_version = _get_next_version(dashboard_id)
NextVersionStep(p) ==
    /\ pc[p] = "next_version"
    /\ ver' = [ver EXCEPT ![p] = _get_next_version(call[p].did)]
    /\ pc' = [pc EXCEPT ![p] = "insert"]
    /\ UNCHANGED <<dashboard_data, widget_data, table_exists, call, cfg, wcfg,
                   readVer, res, budget, maxEver, scen>>
    /\ UNCHANGED layoutVars
    /\ UNCHANGED catalogVars

\* the step of the init / add(w1) / replace(w1, w2) scenario on ("r1", "d1")
\* that the call c is, given the progress so far; -1 when it is none
ScenNext(c) ==
    IF c.did # "d1" THEN scen
    ELSE IF scen = 0 /\ c.op = "init" /\ c.run = "r1" THEN 1
    ELSE IF scen = 1 /\ c.op = "add" /\ c.run = "r1" /\ c.wid = "w1" THEN 2
    ELSE IF scen = 2 /\ c.op = "replace" /\ c.run = "r1"
            /\ c.old = "w1" /\ c.wid = "w2" THEN 3
    ELSE -1

\* the row save_dashboard_data inserts
NewRow(p) ==
    [run_id |-> call[p].run, dashboard_id |-> call[p].did, data |-> cfg[p],
     status |-> "success", version |-> ver[p]]

\* db_manager.conn.execute("INSERT INTO dashboard_data ..."), last statement of
\* save_dashboard_data; a constraint error is re-raised as RuntimeError
InsertStep(p) ==
    /\ pc[p] = "insert"
    /\ IF PrimaryKeyConflict(NewRow(p))
       THEN /\ Finish(p, "conflict")
            /\ UNCHANGED <<dashboard_data, maxEver, scen>>
       ELSE /\ dashboard_data' = InsertRow(NewRow(p))
            /\ Finish(p, "ok")
            /\ maxEver' = [maxEver EXCEPT ![<<call[p].run, call[p].did>>] =
                    IF ver[p] > @ THEN ver[p] ELSE @]
            /\ scen' = ScenNext(call[p])
    /\ UNCHANGED <<widget_data, table_exists, budget>>
    /\ UNCHANGED layoutVars
    /\ UNCHANGED catalogVars

\* save_widget_data: one INSERT INTO widget_data, no key
save_widget_data(p, r, w, data) ==
    /\ pc[p] = "idle"
    /\ budget > 0
    /\ budget' = budget - 1
    /\ widget_data' = Append(widget_data,
                             [run_id |-> r, widget_id |-> w, data |-> data])
    /\ res' = [res EXCEPT ![p] =
                 [NoRes EXCEPT !.status = "ok",
                               !.call = [NoCall EXCEPT !.op = "save_widget",
                                                       !.run = r, !.wid = w]]]
    /\ UNCHANGED <<dashboard_data, table_exists, pc, call, cfg, wcfg, ver,
                   readVer, maxEver, scen>>
    /\ UNCHANGED layoutVars
    /\ UNCHANGED catalogVars

\* cleanup_dashboard_data: DELETE FROM dashboard_data WHERE run_id = r inside
\* try / except: a delete that fails (the table is missing, or the engine
\* reports an error: fails) is printed as a warning and the call returns
cleanup_dashboard_data(p, r, fails) ==
    /\ pc[p] = "idle"
    /\ budget > 0
    /\ budget' = budget - 1
    /\ dashboard_data' = IF fails \/ ~table_exists
                         THEN dashboard_data
                         ELSE DeleteRun(dashboard_data, r)
    /\ scen' = IF scen >= 1 /\ r = "r1" THEN -1 ELSE scen
    /\ res' = [res EXCEPT ![p] =
                 [NoRes EXCEPT !.status = "ok",
                               !.call = [NoCall EXCEPT !.op = "cleanup_dashboard",
                                                       !.run = r]]]
    /\ UNCHANGED <<widget_data, table_exists, pc, call, cfg, wcfg, ver,
                   readVer, maxEver>>
    /\ UNCHANGED layoutVars
    /\ UNCHANGED catalogVars

\* cleanup_widget_data: DELETE FROM widget_data WHERE run_id = r with no
\* try / except: the exception of a delete that fails reaches the caller
cleanup_widget_data(p, r, fails) ==
    /\ pc[p] = "idle"
    /\ budget > 0
    /\ budget' = budget - 1
    /\ widget_data' = IF fails THEN widget_data ELSE DeleteRun(widget_data, r)
    /\ res' = [res EXCEPT ![p] =
                 [NoRes EXCEPT !.status = IF fails THEN "raised" ELSE "ok",
                               !.call = [NoCall EXCEPT !.op = "cleanup_widget",
                                                       !.run = r]]]
    /\ UNCHANGED <<dashboard_data, table_exists, pc, call, cfg, wcfg, ver,
                   readVer, maxEver, scen>>
    /\ UNCHANGED layoutVars
    /\ UNCHANGED catalogVars

----------------------------------------------------------------------------------------------------------------------------------------
(* The component store *)

\* a caller p starts a call with arguments drawn from the given sets:
\* runs R, dashboard ids D, dashboard_id arguments G that are not an id,
\* widget ids W, new names N, new descriptions E, widget payload kinds K,
\* outcomes F of the DELETE of a cleanup (TRUE: the engine reports an error)
StartCall(p, R, D, G, W, N, E, K, F) ==
    \/ \E r \in R, given \in D \cup G :
            initialize_dashboard(p, r, "n1", "e1", given)
    \/ \E r \in R, d \in D, w \in W :
            add_widget_to_dashboard(p, r, d, w)
    \/ \E r \in R, d \in D, old \in W, new \in W :
            replace_widget_in_dashboard(p, r, d, old, new)
    \/ \E r \in R, d \in D, n \in N \cup {None}, e \in E \cup {None} :
            update_dashboard_metadata(p, r, d, n, e)
    \/ \E r \in R, w \in W :
         \E data \in {x \in WidgetPayloads(w) : x.kind \in K} :
            save_widget_data(p, r, w, data)
    \/ \E r \in R, fails \in F : cleanup_dashboard_data(p, r, fails)
    \/ \E r \in R, fails \in F : cleanup_widget_data(p, r, fails)

\* a caller p runs the next statement of its call
Step(p) ==
    \/ GetDashboardStep(p)
    \/ GetWidgetStep(p)
    \/ EnsureStep(p)
    \/ NextVersionStep(p)
    \/ InsertStep(p)

\* two callers whose statements interleave
Next ==
    \E p \in Procs :
        \/ StartCall(p, Runs, {"d1"}, {}, {"w1"}, {"n2"}, {}, {"widget"}, {FALSE})
        \/ Step(p)

Spec == Init /\ [][Next]_vars

\* one caller: calls run one after another
InitSeq == Empty /\ budget = MaxSeqCalls

NextSeq ==
    \/ StartCall("p1", Runs, {"d1"}, {None, Invalid}, WidgetIds, {"n2"}, {},
                 {"widget"}, {FALSE})
    \/ Step("p1")

SpecSeq == InitSeq /\ [][NextSeq]_vars

----------------------------------------------------------------------------
(* One caller editing a dashboard that holds two widgets *)

\* the document of dashboard "d1" with the widget list ws
EditDoc(ws, at) ==
    [id |-> "d1", name |-> "n1", description |-> "e1", widgets |-> ws,
     columns |-> 12, updatedAt |-> at]

\* the store after initialize_dashboard("r1", "n1", "e1", "d1"),
\* save_widget_data of "w1" and of "w2", add_widget_to_dashboard of "w1" and
\* of "w2"
InitEdit ==
    /\ dashboard_data =
         <<[run_id |-> "r1", dashboard_id |-> "d1", version |-> 1,
            status |-> "success", data |-> EditDoc(<<>>, AtCreation)],
           [run_id |-> "r1", dashboard_id |-> "d1", version |-> 2,
            status |-> "success",
            data |-> EditDoc(<<[id |-> "w1", position |-> "at0"]>>, Later)],
           [run_id |-> "r1", dashboard_id |-> "d1", version |-> 3,
            status |-> "success",
            data |-> EditDoc(<<[id |-> "w1", position |-> "at0"],
                               [id |-> "w2", position |-> "at0"]>>, Later)]>>
    /\ widget_data =
         <<[run_id |-> "r1", widget_id |-> "w1",
            data |-> [kind |-> "widget",
                      widget |-> [id |-> "w1", position |-> "at0"]]],
           [run_id |-> "r1", widget_id |-> "w2",
            data |-> [kind |-> "widget",
                      widget |-> [id |-> "w2", position |-> "at0"]]]>>
    /\ table_exists = TRUE
    /\ pc = [p \in Procs |-> "idle"]
    /\ call = [p \in Procs |-> NoCall]
    /\ cfg = [p \in Procs |-> NoCfg]
    /\ wcfg = [p \in Procs |-> EmptyWidget]
    /\ ver = [p \in Procs |-> 0]
    /\ readVer = [p \in Procs |-> 0]
    /\ res = [p \in Procs |->
                IF p = "p1"
                THEN [status |-> "ok",
                      call |-> [NoCall EXCEPT !.op = "add", !.run = "r1",
                                              !.did = "d1", !.wid = "w2"],
                      widget |-> [id |-> "w2", position |-> "at0"],
                      readVer |-> 2, ver |-> 3]
                ELSE NoRes]
    /\ maxEver = [k \in Runs \X Dashboards |->
                    IF k = <<"r1", "d1">> THEN 3 ELSE 0]
    /\ scen = -1
    /\ placed = <<>>
    /\ dash = <<>>
    /\ optimized = FALSE
    /\ tables = [n \in TableNames |-> NoTable]
    /\ table_metadata = {}
    /\ last = NoOp
    /\ prev = NoOp
    /\ createdUnder = [n \in TableNames |-> {}]
    /\ saving = NoSave
    /\ seen = NoSeen
    /\ budget = MaxEditCalls

NextEdit ==
    \/ StartCall("p1", Runs, {"d1"}, {}, WidgetIds \cup {"w3"}, {"n2"}, {"e2"},
                 {"widget", "error"}, BOOLEAN)
    \/ Step("p1")

SpecEdit == InitEdit /\ [][NextEdit]_vars

----------------------------------------------------------------------------
(* Layout: widgets placed one after another *)

\* a widget of type t placed by calculate_widget_position against the
\* widgets placed so far, with the size of its type
PlaceWidget(t) ==
    /\ Len(placed) < MaxPlaced
    /\ placed' = Append(placed,
                        [id |-> None, type |-> t,
                         position |-> calculate_widget_position(placed, t),
                         size |-> get_widget_dimensions(t)])
    /\ UNCHANGED <<dash, optimized>>
    /\ UNCHANGED storeVars
    /\ UNCHANGED catalogVars

NextPlace == \E t \in KnownTypes : PlaceWidget(t)

SpecPlace == Init /\ [][NextPlace]_vars

(* Layout: a dashboard's widget list, as stored, and its optimisation *)

\* the widgets a dashboard may hold: any type or none, unplaced or placed by
\* whoever built the widget
StoredWidgets ==
    {[id |-> i, type |-> t, position |-> ps.position, size |-> ps.size] :
        i \in WidgetIds,
        t \in KnownTypes \cup {"other", None},
        ps \in {[position |-> NoPos, size |-> NoSize],
                [position |-> [x |-> 0, y |-> 0],
                 size |-> [width |-> 280, height |-> 160]]}}

\* the dashboard gains a widget
DashAppend(w) ==
    /\ Len(dash) < MaxDash
    /\ dash' = Append(dash, w)
    /\ optimized' = FALSE
    /\ UNCHANGED placed
    /\ UNCHANGED storeVars
    /\ UNCHANGED catalogVars

\* dashboard_config = optimize_dashboard_layout(dashboard_config)
Optimize ==
    /\ dash' = optimize_dashboard_layout(dash)
    /\ optimized' = TRUE
    /\ UNCHANGED placed
    /\ UNCHANGED storeVars
    /\ UNCHANGED catalogVars

NextOpt ==
    \/ \E w \in StoredWidgets : DashAppend(w)
    \/ Optimize

SpecOpt == Init /\ [][NextOpt]_vars

\* a dashboard whose widgets of id "w1" carry no placement and whose widgets
\* of id "w2" were placed by whoever built them
SampleWidgets ==
    {w \in StoredWidgets : w.id = "w1" <=> w.position = NoPos}

NextSort ==
    \/ \E w \in SampleWidgets : DashAppend(w)
    \/ Optimize

SpecSort == Init /\ [][NextSort]_vars

----------------------------------------------------------------------------
(* Table catalog: calls running one after another *)

\* uuid4().hex[:8]: a name no table and no metadata row has
FreshName(n) ==
    /\ n \in CsvNames
    /\ tables[n] = NoTable
    /\ Entries(n) = {}

\* a call completes: it becomes the last completed call
Completed(op, n, df, user, ok) ==
    /\ last' = [op |-> op, name |-> n, df |-> df, user |-> user, ok |-> ok]
    /\ prev' = last

\* the body shared by load_csv_to_table and load_csv_from_dataframe: CREATE
\* TABLE, INSERT INTO table_metadata, and DROP TABLE IF EXISTS on a failure
LoadInto(op, n, df, user) ==
    IF user = None \/ df = NoFile
    THEN /\ UNCHANGED <<tables, table_metadata, createdUnder>>
         /\ Completed(op, n, df, user, FALSE)
    ELSE IF ~Creatable(df)
    THEN /\ tables' = [tables EXCEPT ![n] = NoTable]
         /\ UNCHANGED <<table_metadata, createdUnder>>
         /\ Completed(op, n, df, user, FALSE)
    ELSE IF MetadataInsertFails(MetadataRow(n, "csv", df, user))
    THEN /\ tables' = [tables EXCEPT ![n] = NoTable]
         /\ createdUnder' = [createdUnder EXCEPT ![n] = @ \cup {user}]
         /\ UNCHANGED table_metadata
         /\ Completed(op, n, df, user, FALSE)
    ELSE /\ tables' = [tables EXCEPT ![n] = df]
         /\ table_metadata' = table_metadata
                                \cup {MetadataRow(n, "csv", df, user)}
         /\ createdUnder' = [createdUnder EXCEPT ![n] = @ \cup {user}]
         /\ Completed(op, n, df, user, TRUE)

\* load_csv_to_table(csv_file, configFromFrontend)
load_csv_to_table(csv_file, user) ==
    /\ \E n \in CsvNames :
        /\ FreshName(n)
        /\ LoadInto("load_csv_to_table", n, csv_file, user)
    /\ UNCHANGED <<saving, seen>>
    /\ UNCHANGED storeVars
    /\ UNCHANGED layoutVars

\* load_csv_from_dataframe(df, original_filename, configFromFrontend)
load_csv_from_dataframe(df, user) ==
    /\ \E n \in CsvNames :
        /\ FreshName(n)
        /\ LoadInto("load_csv_from_dataframe", n, df, user)
    /\ UNCHANGED <<saving, seen>>
    /\ UNCHANGED storeVars
    /\ UNCHANGED layoutVars

\* save_dataframe(df, table_name, description, user_id, configFromFrontend)
save_dataframe(df, n, user) ==
    /\ IF user = None
       THEN /\ UNCHANGED <<tables, table_metadata, createdUnder>>
            /\ Completed("save_dataframe", n, df, user, FALSE)
       ELSE IF ~Creatable(df)
       THEN /\ tables' = [tables EXCEPT ![n] = NoTable]
            /\ UNCHANGED <<table_metadata, createdUnder>>
            /\ Completed("save_dataframe", n, df, user, FALSE)
       ELSE /\ tables' = [tables EXCEPT ![n] = df]
            /\ table_metadata' =
                    InsertOrReplace(MetadataRow(n, "analysis", df, user))
            /\ createdUnder' = [createdUnder EXCEPT ![n] = @ \cup {user}]
            /\ Completed("save_dataframe", n, df, user, TRUE)
    /\ UNCHANGED <<saving, seen>>
    /\ UNCHANGED storeVars
    /\ UNCHANGED layoutVars

NextCat ==
    \/ \E f \in DataFrames \cup {NoFile}, u \in Users \cup {None} :
            load_csv_to_table(f, u)
    \/ \E df \in DataFrames, u \in Users \cup {None} :
            load_csv_from_dataframe(df, u)
    \/ \E df \in DataFrames, n \in TableNames, u \in Users \cup {None} :
            save_dataframe(df, n, u)

SpecCat == Init /\ [][NextCat]_vars

----------------------------------------------------------------------------
(* Table catalog: save_dataframe statement by statement, beside a reader *)

\* variant: CREATE OR REPLACE in place of the drop, which keeps the table
KeepTable(n) == tables

\* DROP TABLE IF EXISTS n
DropTableIfExists(n) == [tables EXCEPT ![n] = NoTable]

\* save_dataframe up to its first statement on the database: the user is
\* taken from the arguments (a call without one raises here) and the table
\* is dropped
SaveDrop(df, n, user) ==
    /\ saving.pc = "idle"
    /\ user # None
    /\ tables' = DropTableIfExists(n)
    /\ saving' = [pc |-> "create", name |-> n, df |-> df, user |-> user,
                  before |-> tables[n] # NoTable, ok |-> FALSE]
    /\ seen' = NoSeen
    /\ UNCHANGED <<table_metadata, last, prev, createdUnder>>
    /\ UNCHANGED storeVars
    /\ UNCHANGED layoutVars

\* register, CREATE TABLE n AS SELECT * FROM temp_df, unregister; a failure
\* is printed and raised, with the table left dropped
SaveCreate ==
    /\ saving.pc = "create"
    /\ IF Creatable(saving.df)
       THEN /\ tables' = [tables EXCEPT ![saving.name] = saving.df]
            /\ saving' = [saving EXCEPT !.pc = "metadata"]
       ELSE /\ saving' = [saving EXCEPT !.pc = "idle"]
            /\ UNCHANGED tables
    /\ UNCHANGED <<table_metadata, last, prev, createdUnder, seen>>
    /\ UNCHANGED storeVars
    /\ UNCHANGED layoutVars

\* INSERT OR REPLACE INTO table_metadata, return table_name
SaveMetadata ==
    /\ saving.pc = "metadata"
    /\ table_metadata' =
            InsertOrReplace(MetadataRow(saving.name, "analysis", saving.df,
                                        saving.user))
    /\ saving' = [saving EXCEPT !.pc = "idle", !.ok = TRUE]
    /\ UNCHANGED <<tables, last, prev, createdUnder, seen>>
    /\ UNCHANGED storeVars
    /\ UNCHANGED layoutVars

\* another caller reads the name being saved: get_table_info(n) and
\* get_table_names(user), between two statements of the save
ReadName(user) ==
    /\ saving.name # None
    /\ seen' = [name |-> saving.name,
                found |-> get_table_info(saving.name).found,
                listed |-> saving.name \in get_table_names(user),
                at |-> saving.pc]
    /\ UNCHANGED <<tables, table_metadata, last, prev, createdUnder, saving>>
    /\ UNCHANGED storeVars
    /\ UNCHANGED layoutVars

NextSave ==
    \/ \E df \in DataFrames, n \in TableNames, u \in Users : SaveDrop(df, n, u)
    \/ SaveCreate
    \/ SaveMetadata
    \/ \E u \in Users : ReadName(u)

SpecSave == Init /\ [][NextSave]_vars

----------------------------------------------------------------------------
(* Claims about the component store *)

Mutating == {"add", "replace", "update"}

\* what the call c, having read the widget definition w, makes of a dashboard
ApplyCall(c, w, base) ==
    CASE c.op = "add" -> Touch(AppendWidget(base, w))
      [] c.op = "replace" -> Touch(ReplaceWidget(base, c.old, w))
      [] c.op = "update" -> Touch(UpdateMetadata(base, c.name, c.description))
      [] OTHER -> base

\* the stored row of a key with version v
StoredAt(r, d, v) ==
    {i \in SelectDashboard(r, d) : dashboard_data[i].version = v}

\* C1: two mutating calls on one (run_id, dashboard_id) that read the same
\* version never both succeed while the highest version lacks the effect of
\* the earlier writer.
C1_NoSilentLostUpdate ==
    \A p, q \in Procs :
        LET r == res[p].call.run
            d == res[p].call.did
        IN ( /\ p # q
             /\ res[p].status = "ok" /\ res[q].status = "ok"
             /\ res[p].call.op \in Mutating /\ res[q].call.op \in Mutating
             /\ res[q].call.run = r /\ res[q].call.did = d
             /\ res[p].readVer = res[q].readVer
             /\ res[p].ver < res[q].ver
             /\ StoredAt(r, d, res[p].ver) # {}
             /\ get_dashboard_data(r, d).version = res[q].ver )
           => \E i \in StoredAt(r, d, res[p].ver) :
                 get_dashboard_data(r, d).data
                    = ApplyCall(res[q].call, res[q].widget, dashboard_data[i].data)

\* C2: of two add_widget_to_dashboard calls on one key that both read version
\* N and both reach the insert, exactly one writes N+1 and the other fails
\* with a version conflict.
C2_OneAddWinsOtherConflicts ==
    \A p, q \in Procs :
        ( /\ p # q
          /\ res[p].call.op = "add" /\ res[q].call.op = "add"
          /\ res[p].call.run = res[q].call.run
          /\ res[p].call.did = res[q].call.did
          /\ res[p].status \in {"ok", "conflict"}
          /\ res[q].status \in {"ok", "conflict"}
          /\ res[p].readVer = res[q].readVer )
        => \E a, b \in {p, q} :
              /\ a # b
              /\ res[a].status = "ok" /\ res[a].ver = res[a].readVer + 1
              /\ res[b].status = "conflict"

\* C3 (as stated): every new row of a key has a version greater than that of
\* every row ever written for the key.
C3_VersionAboveEveryWritten ==
    [][Len(dashboard_data') > Len(dashboard_data) =>
        LET row == dashboard_data'[Len(dashboard_data')] IN
        row.version > maxEver[<<row.run_id, row.dashboard_id>>]]_vars

\* C3 (amended): with calls running one after another, the rows of a key
\* carry strictly increasing versions in insertion order, so every new row
\* has a version greater than that of every row stored for the key.
C3_VersionAboveStored ==
    \A i, j \in DOMAIN dashboard_data :
        ( /\ i < j
          /\ dashboard_data[i].run_id = dashboard_data[j].run_id
          /\ dashboard_data[i].dashboard_id = dashboard_data[j].dashboard_id )
        => dashboard_data[i].version < dashboard_data[j].version

\* a key that lost its rows to a cleanup holds a row again, with a version
\* below one written before the cleanup
C3_Witness ==
    \E r \in Runs, d \in Dashboards :
        /\ SelectDashboard(r, d) # {}
        /\ \A i \in SelectDashboard(r, d) :
                dashboard_data[i].version < maxEver[<<r, d>>]

\* the most recent successful save of a key: its last row in insertion order
LastSaved(r, d) == dashboard_data[Max(SelectDashboard(r, d))]

\* C4: get_dashboard_data returns the payload of the highest-version row of
\* the key, which is the payload of the most recent successful save for the
\* key, and fails when the key has no row.
C4_ReturnsLatestSave ==
    \A r \in Runs, d \in Dashboards :
        IF SelectDashboard(r, d) = {}
        THEN ~get_dashboard_data(r, d).found
        ELSE /\ get_dashboard_data(r, d).found
             /\ \A i \in SelectDashboard(r, d) :
                    dashboard_data[i].version <= get_dashboard_data(r, d).version
             /\ get_dashboard_data(r, d).data = LastSaved(r, d).data

\* C5: no two rows of dashboard_data share (run_id, dashboard_id, version).
C5_UniqueVersionKey ==
    \A i, j \in DOMAIN dashboard_data :
        ( /\ dashboard_data[i].run_id = dashboard_data[j].run_id
          /\ dashboard_data[i].dashboard_id = dashboard_data[j].dashboard_id
          /\ dashboard_data[i].version = dashboard_data[j].version )
        => i = j

\* a save that computed a version another caller had just taken was rejected
C5_Witness ==
    \E p \in Procs :
        /\ res[p].status = "conflict"
        /\ StoredAt(res[p].call.run, res[p].call.did, res[p].ver) # {}

\* C6: a dashboard mutation that succeeds adds exactly one row and leaves
\* every stored row as it was.
C6_MutationAppendsOneRow ==
    [][\A p \in Procs :
          (pc[p] = "insert" /\ res'[p].status = "ok") =>
             /\ Len(dashboard_data') = Len(dashboard_data) + 1
             /\ \A i \in DOMAIN dashboard_data :
                    dashboard_data'[i] = dashboard_data[i]]_vars

\* a replace_widget_in_dashboard succeeded on top of stored versions
C6_Witness ==
    \E p \in Procs :
        /\ res[p].status = "ok"
        /\ res[p].call.op = "replace"
        /\ Len(dashboard_data) >= 3

\* rows of a dashboard id, in insertion order
RowsOfDashboard(d) ==
    SelectSeq(dashboard_data, LAMBDA row : row.dashboard_id = d)

\* C7: initialize_dashboard, add_widget_to_dashboard(w1),
\* replace_widget_in_dashboard(w1, w2) in run r1 on a dashboard id without
\* rows store versions 1, 2, 3 with widget lists [], [w1], [w2], and
\* get_dashboard_versions lists the versions 3, 2, 1.
C7_InitAddReplaceScenario ==
    scen = 3 =>
        LET rows == RowsOfDashboard("d1")
            vs == get_dashboard_versions("d1")
        IN /\ Len(rows) = 3
           /\ \A k \in 1..3 : rows[k].version = k /\ rows[k].run_id = "r1"
           /\ rows[1].data.widgets = <<>>
           /\ Len(rows[2].data.widgets) = 1
           /\ rows[2].data.widgets[1].id = "w1"
           /\ Len(rows[3].data.widgets) = 1
           /\ rows[3].data.widgets[1].id = "w2"
           /\ Len(vs) = 3
           /\ vs[1].version = 3 /\ vs[2].version = 2 /\ vs[3].version = 1

\* the three calls of the scenario have completed
C7_Witness == scen = 3

----------------------------------------------------------------------------
(* Claims about layout placement *)

\* two rectangles whose extents, one of them inflated by the 20-unit margin,
\* intersect on both axes
Intersect(a, b) ==
    /\ a.position.x < b.position.x + b.size.width + 20
    /\ b.position.x < a.position.x + a.size.width + 20
    /\ a.position.y < b.position.y + b.size.height + 20
    /\ b.position.y < a.position.y + a.size.height + 20

\* C8: widgets placed one after another by calculate_widget_position never
\* intersect, margin included.
C8_PlacedNeverIntersect ==
    \A i, j \in DOMAIN placed : i # j => ~Intersect(placed[i], placed[j])

\* C9: optimize_dashboard_layout applied to its own output changes nothing.
C9_OptimizeIdempotent ==
    optimized => optimize_dashboard_layout(dash) = dash

\* an optimised dashboard of three widgets, two of them of one priority
C9_Witness ==
    /\ optimized
    /\ Len(dash) = 3
    /\ \E i, j \in DOMAIN dash :
          i # j /\ type_priority(dash[i]) = type_priority(dash[j])
                /\ dash[i].id # dash[j].id

\* the rectangle a widget of type t would take at preferred x number k
Candidate(t, k) ==
    [position |-> [x |-> position_rules(t).preferred_x_positions[k],
                   y |-> position_rules(t).preferred_y],
     size |-> get_widget_dimensions(t)]

\* preferred x number k of type t intersects no widget that has a position
\* and a size
FreeCandidate(ws, t, k) ==
    \A i \in DOMAIN ws :
        (ws[i].position # NoPos /\ ws[i].size # NoSize)
            => ~Intersect(Candidate(t, k), ws[i])

\* C10: for a known type the result is (x, preferred_y) with x the first
\* preferred x that intersects no existing widget; a metric next to a metric
\* at (0, 0) of 280x160 goes to (300, 0).
C10_FirstFreeCandidate ==
    /\ \A t \in KnownTypes :
        \A k \in DOMAIN position_rules(t).preferred_x_positions :
            ( /\ FreeCandidate(dash, t, k)
              /\ \A j \in 1..(k - 1) : ~FreeCandidate(dash, t, j) )
            => calculate_widget_position(dash, t) = Candidate(t, k).position
    /\ ( /\ Len(dash) = 1
         /\ dash[1].position = [x |-> 0, y |-> 0]
         /\ dash[1].size = [width |-> 280, height |-> 160] )
       => calculate_widget_position(dash, "metric") = [x |-> 300, y |-> 0]

\* the dashboard holds one metric at (0, 0)
C10_Witness ==
    /\ Len(dash) = 1
    /\ dash[1].type = "metric"
    /\ dash[1].position = [x |-> 0, y |-> 0]
    /\ dash[1].size = [width |-> 280, height |-> 160]

----------------------------------------------------------------------------
(* Claims about the table catalog *)

\* C11: for users t1 # t2, get_table_names(t1) never includes the name of a
\* table that was created under t2.
C11_ListsNoNameOfOtherUser ==
    \A t1, t2 \in Users :
        t1 # t2 => \A n \in get_table_names(t1) : t2 \notin createdUnder[n]

\* the last two completed calls are successful save_dataframe calls with one
\* table name and different DataFrames
TwoSavesOfOneName ==
    /\ last.ok /\ prev.ok
    /\ last.op = "save_dataframe" /\ prev.op = "save_dataframe"
    /\ last.name = prev.name
    /\ last.df # prev.df

\* C12: after two successful save_dataframe calls with one table name and
\* different row-sets, table_metadata has exactly one row for the name, and
\* its counts and the physical table are those of the second row-set.
C12_SecondSaveReplacesFirst ==
    TwoSavesOfOneName =>
        /\ Cardinality(Entries(last.name)) = 1
        /\ \A m \in Entries(last.name) :
              /\ m.row_count = last.df.nrows
              /\ m.column_count = last.df.ncols
        /\ tables[last.name] = last.df

\* two such saves have completed, the second by another user
C12_Witness ==
    /\ TwoSavesOfOneName
    /\ last.user # prev.user

\* C13: after a successful save_dataframe(df, name), get_table_info(name)
\* reports row_count = len(df) and column_count = len(df.columns).
C13_InfoReportsSavedCounts ==
    (last.ok /\ last.op = "save_dataframe") =>
        /\ get_table_info(last.name).found
        /\ get_table_info(last.name).row_count = last.df.nrows
        /\ get_table_info(last.name).column_count = last.df.ncols

\* a DataFrame was saved under the name of a loaded CSV table of other counts
C13_Witness ==
    /\ last.ok /\ last.op = "save_dataframe"
    /\ prev.ok /\ prev.op = "load_csv_from_dataframe"
    /\ prev.name = last.name
    /\ prev.df.nrows # last.df.nrows

\* C14: after every completed catalog call, a name has a table_metadata row
\* if and only if it has a physical table.
C14_EntryIffTable ==
    \A n \in TableNames : (Entries(n) # {}) <=> (tables[n] # NoTable)

----------------------------------------------------------------------------
(* Claims about the dashboard handlers *)

\* C15: every successful initialize_dashboard call, with or without a
\* dashboard id supplied, stores a row of version 1 whose payload has an
\* empty widget list and a 12-column layout.
C15_InitStoresVersionOne ==
    \A p \in Procs :
        (res[p].status = "ok" /\ res[p].call.op = "init") =>
            /\ res[p].ver = 1
            /\ \E i \in StoredAt(res[p].call.run, res[p].call.did, res[p].ver) :
                  /\ dashboard_data[i].data.widgets = <<>>
                  /\ dashboard_data[i].data.columns = 12

\* the row a successful save has just appended
NewestRow == dashboard_data'[Len(dashboard_data')]

\* the caller p completes the call op with the insert of a new version
Saves(p, op) ==
    /\ pc[p] = "insert"
    /\ call[p].op = op
    /\ res'[p].status = "ok"

\* C16: a successful add_widget_to_dashboard stores a later version whose
\* widget list is the current list with the stored definition of the widget
\* appended as it is; the entries before it are unchanged.
C16_AddAppendsStoredDefinition ==
    [][\A p \in Procs :
          Saves(p, "add") =>
             LET before == get_dashboard_data(call[p].run, call[p].did) IN
             /\ NewestRow.version > before.version
             /\ Len(NewestRow.data.widgets) = Len(before.data.widgets) + 1
             /\ \A k \in DOMAIN before.data.widgets :
                    NewestRow.data.widgets[k] = before.data.widgets[k]
             /\ \E i \in SelectWidget(call[p].run, call[p].wid) :
                    NewestRow.data.widgets[Len(NewestRow.data.widgets)]
                        = widget_data[i].data.widget]_vars

\* a widget was added to a dashboard that held two
C16_Witness ==
    \E p \in Procs :
        /\ res[p].status = "ok" /\ res[p].call.op = "add"
        /\ \E i \in StoredAt(res[p].call.run, res[p].call.did, res[p].ver) :
              Len(dashboard_data[i].data.widgets) = 3

\* C17: a successful replace_widget_in_dashboard(old, new) stores a later
\* version whose widget list has the length it had, the stored definition
\* of new at the index of the entry with id old, and every other entry
\* unchanged.
C17_ReplaceSwapsInPlace ==
    [][\A p \in Procs :
          Saves(p, "replace") =>
             LET before == get_dashboard_data(call[p].run, call[p].did).data.widgets
                 after == NewestRow.data.widgets
             IN /\ Len(after) = Len(before)
                /\ \E k \in DOMAIN before :
                      /\ before[k].id = call[p].old
                      /\ \A j \in 1..(k - 1) : before[j].id # call[p].old
                      /\ \E i \in SelectWidget(call[p].run, call[p].wid) :
                            after[k] = widget_data[i].data.widget
                      /\ \A j \in DOMAIN before : j # k => after[j] = before[j]]_vars

\* the first of two entries was replaced by a widget with another id
C17_Witness ==
    \E p \in Procs :
        /\ res[p].status = "ok" /\ res[p].call.op = "replace"
        /\ res[p].call.old = "w1" /\ res[p].call.wid = "w2"
        /\ \E i \in StoredAt(res[p].call.run, res[p].call.did, res[p].ver) :
              /\ Len(dashboard_data[i].data.widgets) = 2
              /\ dashboard_data[i].data.widgets[1].id = "w2"

\* replace_widget_in_dashboard is past its reads and the dashboard it read
\* has no entry with id old_widget_id
OldAbsent(p) ==
    /\ pc[p] = "get_widget"
    /\ call[p].op = "replace"
    /\ \A k \in DOMAIN cfg[p].widgets : cfg[p].widgets[k].id # call[p].old

\* C18 (as stated): when the widget list has no entry with id old_widget_id,
\* replace_widget_in_dashboard fails with the error of the missing old
\* widget and writes no version.
C18_AbsentOldIsTheError ==
    [][\A p \in Procs :
          OldAbsent(p) =>
             /\ res'[p].status = "widget_not_in_dashboard"
             /\ dashboard_data' = dashboard_data]_vars

\* C18 (amended): when the widget list has no entry with id old_widget_id,
\* replace_widget_in_dashboard fails and writes no version; the error is
\* that of the missing old widget when widget_data has a row for the new
\* widget, and that of get_widget_data otherwise.
C18_AbsentOldFails ==
    [][\A p \in Procs :
          OldAbsent(p) =>
             /\ pc'[p] = "idle"
             /\ res'[p].status =
                    IF SelectWidget(call[p].run, call[p].wid) # {}
                    THEN "widget_not_in_dashboard" ELSE "widget_not_found"
             /\ dashboard_data' = dashboard_data]_vars

\* a replace failed for an old id the dashboard of two widgets does not hold
C18_Witness ==
    \E p \in Procs :
        /\ res[p].status = "widget_not_in_dashboard"
        /\ res[p].call.old = "w3"
        /\ Len(get_dashboard_data(res[p].call.run, res[p].call.did).data.widgets) = 2

\* C19 (as stated): update_dashboard_metadata changes only the fields that
\* were provided.
C19_OnlyProvidedFieldsChange ==
    [][\A p \in Procs :
          Saves(p, "update") =>
             LET before == get_dashboard_data(call[p].run, call[p].did).data IN
             NewestRow.data =
                [before EXCEPT
                    !.name = IF call[p].name # None THEN call[p].name ELSE @,
                    !.description = IF call[p].description # None
                                    THEN call[p].description ELSE @]]_vars

\* C19 (amended): update_dashboard_metadata sets name and description when
\* they are provided and keeps them when omitted, sets updatedAt to the time
\* of the call, and leaves the widget list, the layout and the id as they
\* were.
C19_ProvidedFieldsAndTimestamp ==
    [][\A p \in Procs :
          Saves(p, "update") =>
             LET before == get_dashboard_data(call[p].run, call[p].did).data
                 after == NewestRow.data
             IN /\ after.name = IF call[p].name # None THEN call[p].name
                                ELSE before.name
                /\ after.description = IF call[p].description # None
                                       THEN call[p].description
                                       ELSE before.description
                /\ after.updatedAt = Later
                /\ after.widgets = before.widgets
                /\ after.columns = before.columns
                /\ after.id = before.id]_vars

\* a description was set, the name omitted, on a dashboard of two widgets
C19_Witness ==
    \E p \in Procs :
        /\ res[p].status = "ok" /\ res[p].call.op = "update"
        /\ res[p].call.name = None /\ res[p].call.description = "e2"
        /\ \E i \in StoredAt(res[p].call.run, res[p].call.did, res[p].ver) :
              /\ Len(dashboard_data[i].data.widgets) = 2
              /\ dashboard_data[i].data.name = "n1"

\* C20: save_widget_data adds one row whatever widget_data holds, and
\* get_widget_data returns the payload of the most recently inserted row of
\* the key.
C20_ReadsMostRecentWidgetRow ==
    [][\A p \in Procs :
          /\ (pc[p] = "idle" /\ res'[p].call.op = "save_widget")
                => Len(widget_data') = Len(widget_data) + 1
          /\ (pc[p] = "get_widget" /\ pc'[p] = "ensure")
                => wcfg'[p] =
                     widget_data[Max(SelectWidget(call[p].run, call[p].wid))]
                        .data.widget]_vars

----------------------------------------------------------------------------
(* Claims about cleanup, versions and run isolation *)

\* C21: cleanup_widget_data(run) and cleanup_dashboard_data(run) delete every
\* row of the run, and a delete that fails is logged: the call returns
\* normally, with the table as it was, instead of raising.
C21_CleanupNeverRaises ==
    [][\A p \in Procs :
          (pc[p] = "idle" /\ budget' < budget) =>
             /\ res'[p].call.op = "cleanup_dashboard" =>
                   /\ res'[p].status = "ok"
                   /\ dashboard_data' \in
                         {DeleteRun(dashboard_data, res'[p].call.run),
                          dashboard_data}
             /\ res'[p].call.op = "cleanup_widget" =>
                   /\ res'[p].status = "ok"
                   /\ widget_data' \in
                         {DeleteRun(widget_data, res'[p].call.run),
                          widget_data}]_vars

\* C22: get_dashboard_versions(d) has one entry per stored row of the
\* dashboard id d, in strictly descending order of version, and is the empty
\* list when d has no row.
C22_VersionsStrictlyDescending ==
    \A d \in Dashboards :
        LET vs == get_dashboard_versions(d) IN
        /\ Len(vs) = Cardinality(SelectByDashboardId(d))
        /\ \A i \in SelectByDashboardId(d) :
              \E k \in DOMAIN vs :
                 /\ vs[k].run_id = dashboard_data[i].run_id
                 /\ vs[k].version = dashboard_data[i].version
        /\ \A k \in 1..(Len(vs) - 1) : vs[k].version > vs[k + 1].version

\* C26: a save of a dashboard id whose highest stored version, under any
\* run, is v is stored with version v + 1 (1 when the id has no row), so the
\* versions of one (run_id, dashboard_id) need not be contiguous.
C26_NextVersionAcrossRuns ==
    [][\A p \in Procs :
          (pc[p] = "insert" /\ res'[p].status = "ok") =>
             LET row == dashboard_data'[Len(dashboard_data')] IN
             /\ row.run_id = call[p].run
             /\ row.version =
                   1 + Max({dashboard_data[i].version :
                              i \in SelectByDashboardId(row.dashboard_id)}
                           \cup {0})]_vars

\* a key holds two versions with none of its own between them, and another
\* run holds a version of the dashboard id between them
C26_Witness ==
    \E r, r2 \in Runs, d \in Dashboards :
        \E i, j \in SelectDashboard(r, d), k \in SelectDashboard(r2, d) :
            /\ r2 # r
            /\ dashboard_data[i].version < dashboard_data[k].version
            /\ dashboard_data[k].version < dashboard_data[j].version
            /\ \A m \in SelectDashboard(r, d) :
                   \/ dashboard_data[m].version <= dashboard_data[i].version
                   \/ dashboard_data[m].version >= dashboard_data[j].version

\* the rows of the table tbl that were saved under the run r
RowsOfRun(tbl, r) == SelectSeq(tbl, LAMBDA row : row.run_id = r)

\* C27: get_dashboard_data(r, d) and get_widget_data(r, w) return the
\* payload of a row saved under r, and fail when r has none, whatever rows
\* the same dashboard id or widget id has under other runs: a step that
\* leaves the rows of r as they are leaves the result for r as it is.
C27_ReadsOwnRunOnly ==
    [][/\ \A r \in Runs, d \in Dashboards :
            RowsOfRun(dashboard_data', r) = RowsOfRun(dashboard_data, r)
               => get_dashboard_data(r, d)' = get_dashboard_data(r, d)
       /\ \A p \in Procs :
            /\ (pc[p] = "get_dashboard" /\ pc'[p] \in {"get_widget", "ensure"})
                  => \E i \in DOMAIN dashboard_data :
                        /\ dashboard_data[i].run_id = call[p].run
                        /\ dashboard_data[i].dashboard_id = call[p].did
                        /\ dashboard_data[i].version = readVer'[p]
                        /\ call[p].op # "update"
                              => cfg'[p] = dashboard_data[i].data
            /\ (pc[p] = "get_widget" /\ pc'[p] = "ensure")
                  => \E i \in DOMAIN widget_data :
                        /\ widget_data[i].run_id = call[p].run
                        /\ widget_data[i].widget_id = call[p].wid
                        /\ wcfg'[p] = widget_data[i].data.widget]_vars

\* a dashboard id holds different documents under two runs, and a call under
\* one run found no definition of a widget that is stored under the other
C27_Witness ==
    \E p \in Procs, r, r2 \in Runs :
        /\ r # r2
        /\ res[p].status = "widget_not_found"
        /\ res[p].call.run = r
        /\ SelectWidget(r2, res[p].call.wid) # {}
        /\ get_dashboard_data(r, res[p].call.did).found
        /\ get_dashboard_data(r2, res[p].call.did).found
        /\ get_dashboard_data(r, res[p].call.did).data
              # get_dashboard_data(r2, res[p].call.did).data

\* the statuses of a mutation that raised because a row was missing
MissingRow == {"dashboard_not_found", "widget_not_found"}

\* C28: every statement of add_widget_to_dashboard, replace_widget_in_dashboard
\* and update_dashboard_metadata up to and including the raise for a missing
\* dashboard row or widget row leaves dashboard_data as it was, and with it
\* the result of get_dashboard_data for every key.
C28_FailedMutationWritesNothing ==
    [][\A p \in Procs :
          ( \/ (pc[p] = "idle" /\ pc'[p] = "get_dashboard")
            \/ (pc[p] = "get_dashboard" /\ pc'[p] = "get_widget")
            \/ (pc[p] # "idle" /\ res'[p].status \in MissingRow) )
          => /\ dashboard_data' = dashboard_data
             /\ \A r \in Runs, d \in Dashboards :
                   get_dashboard_data(r, d)' = get_dashboard_data(r, d)]_vars

\* a mutation of a stored dashboard raised for a widget without a row, and
\* the dashboard is at the version it had
C28_Witness ==
    \E p \in Procs :
        /\ res[p].status = "widget_not_found"
        /\ res[p].call.op \in {"add", "replace"}
        /\ get_dashboard_data(res[p].call.run, res[p].call.did).found
        /\ get_dashboard_data(res[p].call.run, res[p].call.did).version
              = res[p].readVer

\* C29: cleanup_dashboard_data(run) leaves the rows of every other run as
\* they are, and a dashboard id that a cleanup has left without rows gets
\* version 1 at its next save.
C29_RestartAfterCleanup ==
    [][\A p \in Procs :
          /\ (pc[p] = "idle" /\ budget' < budget
                /\ res'[p].call.op = "cleanup_dashboard") =>
                /\ \A r \in Runs \ {res'[p].call.run} :
                      RowsOfRun(dashboard_data', r) = RowsOfRun(dashboard_data, r)
                /\ RowsOfRun(dashboard_data', res'[p].call.run) = <<>>
                /\ \A d \in Dashboards :
                      (\A i \in DOMAIN dashboard_data' :
                          dashboard_data'[i].dashboard_id # d)
                         => _get_next_version(d)' = 1
          /\ (pc[p] = "insert" /\ res'[p].status = "ok"
                /\ SelectByDashboardId(call[p].did) = {}) =>
                dashboard_data'[Len(dashboard_data')].version = 1]_vars

\* a dashboard id that reached version 2 under a run holds, after a cleanup,
\* a single row of version 1, while another dashboard id kept its rows
C29_Witness ==
    \E r \in Runs, d, d2 \in Dashboards :
        /\ maxEver[<<r, d>>] >= 2
        /\ Cardinality(SelectByDashboardId(d)) = 1
        /\ \A i \in SelectByDashboardId(d) : dashboard_data[i].version = 1
        /\ d2 # d
        /\ SelectByDashboardId(d2) # {}

----------------------------------------------------------------------------
(* Claims about the fallback row and the optimised layout *)

\* the bottoms y + height of the widgets of ws whose y is within 50 of y0
BottomsNear(ws, y0) ==
    {ws[i].position.y + ws[i].size.height :
        i \in {i \in DOMAIN ws : /\ ws[i].position # NoPos
                                 /\ ws[i].size # NoSize
                                 /\ ws[i].position.y - y0 <= 50
                                 /\ y0 - ws[i].position.y <= 50}}

\* C23: when every preferred x of a known type overlaps an existing widget,
\* the widget goes to x = the first preferred x and y = 30 + the maximum of
\* preferred_y and of y + height over the existing widgets whose y is within
\* 50 of preferred_y.
C23_FallbackRow ==
    [][Len(placed') = Len(placed) + 1 =>
        LET new == placed'[Len(placed')]
            rules == position_rules(new.type)
        IN (\A k \in DOMAIN rules.preferred_x_positions :
                ~FreeCandidate(placed, new.type, k))
           => new.position =
                [x |-> rules.preferred_x_positions[1],
                 y |-> 30 + Max(BottomsNear(placed, rules.preferred_y)
                                \cup {rules.preferred_y})]]_vars

\* a widget was placed off its preferred row while a widget outside the
\* 50-unit range reaches lower than those inside it
C23_Witness ==
    \E i, j \in DOMAIN placed :
        /\ j < i
        /\ placed[i].position.y # position_rules(placed[i].type).preferred_y
        /\ placed[j].position.y + placed[j].size.height > placed[i].position.y

\* the one-to-one maps of the indices 1..n
Perms(n) ==
    {f \in [1..n -> 1..n] : \A i, j \in 1..n : i # j => f[i] # f[j]}

\* the widgets of ws with their types only: no position, no size, one id
Blank(ws) ==
    [k \in DOMAIN ws |->
        [id |-> "w1", type |-> ws[k].type, position |-> NoPos, size |-> NoSize]]

\* C24: optimize_dashboard_layout orders the widgets by type priority
\* (metric, chart, table, text; any other type and a missing type with text),
\* widgets of equal priority stay in input order, and the positions and sizes
\* of the output are those of any input with the same sequence of types.
C24_OrderAndPlacementByType ==
    [][optimized' =>
        /\ Len(dash') = Len(dash)
        /\ \E f \in Perms(Len(dash)) :
              /\ \A k \in DOMAIN dash :
                    /\ dash'[k].id = dash[f[k]].id
                    /\ dash'[k].type = dash[f[k]].type
              /\ \A j, k \in DOMAIN dash :
                    j < k =>
                      /\ type_priority(dash'[j]) <= type_priority(dash'[k])
                      /\ type_priority(dash'[j]) = type_priority(dash'[k])
                            => f[j] < f[k]
        /\ LET blank == optimize_dashboard_layout(Blank(dash)) IN
           \A k \in DOMAIN dash :
              /\ dash'[k].position = blank[k].position
              /\ dash'[k].size = blank[k].size]_vars

\* an optimised dashboard in which a widget of an unknown type stands before
\* a text widget, after a metric
C24_Witness ==
    /\ optimized
    /\ Len(dash) = 3
    /\ dash[1].type = "metric"
    /\ dash[2].type = "other"
    /\ dash[3].type = "text"

\* C30: the output of optimize_dashboard_layout holds the widgets of its
\* input, each as often as the input holds it, and a widget differs from its
\* input in position and size only.
C30_SameWidgetsButPlacement ==
    [][optimized' =>
        /\ Len(dash') = Len(dash)
        /\ \E f \in Perms(Len(dash)) :
              \A k \in DOMAIN dash :
                 dash'[k] = [dash[f[k]] EXCEPT !.position = dash'[k].position,
                                               !.size = dash'[k].size]]_vars

\* an optimised dashboard that holds one id twice, another id once, and a
\* widget without a type
C30_Witness ==
    /\ optimized
    /\ Len(dash) = 3
    /\ dash[1].id = dash[2].id
    /\ dash[3].id # dash[1].id
    /\ \E k \in DOMAIN dash : dash[k].type = None

----------------------------------------------------------------------------
(* Claims about save_dataframe beside a reader *)

\* C25: between the drop and the recreate step of a save_dataframe the table
\* is missing for every reader of the name, also when the name had a table
\* before the save and has one after it.
C25_MissingBetweenDropAndCreate ==
    /\ saving.pc = "create" =>
          /\ ~get_table_info(saving.name).found
          /\ \A u \in Users : saving.name \notin get_table_names(u)
    /\ seen.at = "create" => (~seen.found /\ ~seen.listed)

\* a save of a name that had a table has completed, the name has a table,
\* and a reader found the table missing between the drop and the recreate
C25_Witness ==
    /\ saving.pc = "idle" /\ saving.ok /\ saving.before
    /\ tables[saving.name] # NoTable
    /\ seen.name = saving.name
    /\ seen.at = "create"
    /\ ~seen.found

====
